---- MODULE Spec2Model ----
(***************************************************************************)
(* Model of src/src/MT5_Automated_Execution_Framework.py: a single-threaded *)
(* script that initialises an MT5 terminal session, recovers its position   *)
(* from the terminal, and then loops: connection check, indicators, entry   *)
(* branch when flat, exit branch when holding.                              *)
(*                                                                          *)
(* Units.  z-scores are in tenths (2.2 -> 22), prices and atr in            *)
(* thousandths, lots in hundredths, money in hundredths, time in whole      *)
(* hours since the Unix epoch (UTC).  NaN is the float not-a-number that    *)
(* pandas yields for statistics over too few bars; every comparison with it *)
(* is false, as in Python.  TLC compares only values of one kind, so        *)
(* Python's None has one representative per kind: the string None for a     *)
(* direction, NoPrice for a number, NoTime for a datetime, and the empty    *)
(* tuple for a record a library call may fail to return (a returned record  *)
(* r is the tuple <<r>>).                                                   *)
(*                                                                          *)
(* Environment.  The MetaTrader5 library is not part of the repository.     *)
(* Each of its calls returns either None or a value, as the library         *)
(* documents.  An order is either executed in full (retcode DONE) or not at *)
(* all; a deal against an open position of the same magic number and the    *)
(* opposite side closes it.  Line 6 (from datetime import ..., pytz) is     *)
(* taken to resolve pytz; as written it raises ImportError before line 21.  *)
(***************************************************************************)
EXTENDS Integers, Sequences, FiniteSets, TLC

VARIABLES
    pc,               \* position of the script: "boot", "recover", "loop", "stopped"
    exit_status,      \* process exit status once stopped, -1 while running
    active_position,  \* None | "LONG" | "SHORT"                 (line 129)
    entry_price,      \* None | price                            (line 129)
    trade_entry_time, \* None | datetime                         (line 129)
    trade_lots,       \* lots, 0 when nothing recovered          (line 129)
    gwInitialized,    \* the library holds a terminal session    (mt5.initialize / mt5.shutdown)
    gwPositions,      \* open positions as the terminal lists them
    logFile,          \* LOG_FILE: [exists, lines]
    clock,            \* wall clock, hours since the epoch
    cycles,           \* number of loop iterations started
    unrecovered,      \* a disconnect was detected and check_existing_position has not run since
    last              \* what the most recent step did (trace of the step)

vars == <<pc, exit_status, active_position, entry_price, trade_entry_time, trade_lots,
          gwInitialized, gwPositions, logFile, clock, cycles, unrecovered, last>>

----------------------------------------------------------------------------
(* Bounds of the model *)
MaxCycles == 3
MaxClock == 46

(* Configuration, lines 9-18 *)
MAGIC_NUMBER == 123456
LOOKBACK == 100
ENTRY_Z == 22
EXIT_Z == 2
STOP_Z == 40
RISK_PER_TRADE == 1
MAX_TRADE_DURATION_HOURS == 8
TREND_WINDOW == 200      \* rolling(200), line 123

(* Library constants *)
POSITION_TYPE_BUY == 0
POSITION_TYPE_SELL == 1
ORDER_TYPE_BUY == 0
ORDER_TYPE_SELL == 1
TRADE_RETCODE_DONE == 10009
TRADE_RETCODE_REJECT == 10006

None == "None"
NaN == 0 - 10^6          \* outside every numeric range of the model
NoPrice == 0 - 10^6 - 1
NoTime == [utc |-> NoPrice]
NoResult == <<>>         \* a library call returning None
Some(r) == <<r>>
IsNone(x) == x = <<>>
Get(x) == x[1]

----------------------------------------------------------------------------
(* Float helpers: NaN compares false with everything *)
IsNum(x) == x # NaN
Abs(x) == IF x = NaN THEN NaN ELSE IF x < 0 THEN -x ELSE x
Gt(a, b) == IsNum(a) /\ IsNum(b) /\ a > b
Ge(a, b) == IsNum(a) /\ IsNum(b) /\ a >= b
Le(a, b) == IsNum(a) /\ IsNum(b) /\ a <= b
Lt(a, b) == IsNum(a) /\ IsNum(b) /\ a < b
\* Python's max(a, b) keeps a unless b > a
PyMax(a, b) == IF Gt(b, a) THEN b ELSE a

\* round(n/d) to the nearest integer, ties to even (Python 3 round)
RoundHalfEven(n, d) ==
    LET q == n \div d
        r == n % d
    IN  IF 2 * r < d THEN q
        ELSE IF 2 * r > d THEN q + 1
        ELSE IF q % 2 = 0 THEN q ELSE q + 1

\* datetime.fromtimestamp(t, tz=pytz.utc) and datetime.now(pytz.utc)
fromtimestamp(t) == [utc |-> t]
now == [utc |-> clock]
\* datetime.weekday(): Monday is 0; 1970-01-01 was a Thursday
weekday(d) == ((d.utc \div 24) + 3) % 7
hour(d) == d.utc % 24
\* (a - b).total_seconds() / 3600
hours_between(a, b) == a.utc - b.utc

----------------------------------------------------------------------------
(* 1. State recovery, lines 26-37 *)
RECURSIVE Filter(_, _)
Filter(s, magic) ==
    IF s = <<>> THEN <<>>
    ELSE IF Head(s).magic = magic THEN <<Head(s)>> \o Filter(Tail(s), magic)
    ELSE Filter(Tail(s), magic)

\* (mutation: the first listed position is taken without the magic filter)
check_existing_position_unfiltered(positions) ==
    IF positions # <<>>
    THEN LET pos == positions[1]
         IN  [direction |-> IF pos.type = POSITION_TYPE_BUY THEN "LONG" ELSE "SHORT",
              price |-> pos.price_open,
              time |-> fromtimestamp(pos.time),
              lots |-> pos.volume]
    ELSE [direction |-> None, price |-> NoPrice, time |-> NoTime, lots |-> 0]

\* positions is the tuple mt5.positions_get returns
\* (positions_get returning None is falsy at line 29 exactly as the empty tuple is)
check_existing_position(positions) ==
    LET bot_positions == Filter(positions, MAGIC_NUMBER)
    IN  IF positions # <<>> /\ bot_positions # <<>>
        THEN LET pos == bot_positions[1]
             IN  [direction |-> IF pos.type = POSITION_TYPE_BUY THEN "LONG" ELSE "SHORT",
                  price |-> pos.price_open,
                  time |-> fromtimestamp(pos.time),
                  lots |-> pos.volume]
        ELSE [direction |-> None, price |-> NoPrice, time |-> NoTime, lots |-> 0]

----------------------------------------------------------------------------
(* 2. Risk calculation, lines 40-53.  risk_amount in hundredths, stop_pips   *)
(* a whole number of pips or NaN, result in hundredths of a lot.            *)
get_lot_size(risk_amount, stop_pips, tick_value) ==
    LET sp == PyMax(stop_pips, 10)
    IN  IF sp = NaN THEN NaN      \* lot is NaN: both comparisons are false, round(NaN) is NaN
        ELSE LET den == sp * tick_value * 100
             IN  IF risk_amount < den THEN 0                  \* lot < 0.01
                 ELSE IF risk_amount >= 1000 * den THEN 1000  \* min(lot, 10.0)
                 ELSE RoundHalfEven(risk_amount, den)


----------------------------------------------------------------------------
(* 3. Auditing, lines 56-69.  The file is absent or a sequence of lines;    *)
(* to_csv(mode='a', header=not file_exists) creates it when absent.         *)
HeaderRow == [row |-> "header"]
NoFile == [exists |-> FALSE, lines |-> <<>>]

log_entry(action, status, price, lots, pnl, reason) ==
    [row |-> "record", Timestamp |-> clock, Action |-> action, Status |-> status,
     Price |-> price, Lots |-> lots, PnL_JPY |-> pnl, Reason |-> reason]

\* (mutation: the row is built and never written)
log_trade_unwritten(file, action, status, price, lots, pnl, reason) == file

\* (mutation: to_csv opens the file with mode='w')
log_trade_rewriting(file, action, status, price, lots, pnl, reason) ==
    LET file_exists == file.exists
        entry == log_entry(action, status, price, lots, pnl, reason)
    IN  [exists |-> TRUE,
         lines |-> (IF file_exists THEN <<>> ELSE <<HeaderRow>>) \o <<entry>>]

log_trade(file, action, status, price, lots, pnl, reason) ==
    LET file_exists == file.exists
        entry == log_entry(action, status, price, lots, pnl, reason)
    IN  [exists |-> TRUE,
         lines |-> file.lines \o (IF file_exists THEN <<>> ELSE <<HeaderRow>>) \o <<entry>>]

\* the records of a file, header rows left out
RECURSIVE Records(_)
Records(ls) ==
    IF ls = <<>> THEN <<>>
    ELSE IF Head(ls).row = "record" THEN <<Head(ls)>> \o Records(Tail(ls))
    ELSE Records(Tail(ls))

----------------------------------------------------------------------------
(* Execution engine, lines 72-108: the request handed to mt5.order_send *)
send_market_order(action, lot, comment, tick) ==
    [volume |-> lot,
     type |-> IF action = "LONG" THEN ORDER_TYPE_BUY ELSE ORDER_TYPE_SELL,
     price |-> IF action = "LONG" THEN tick.ask ELSE tick.bid,
     magic |-> MAGIC_NUMBER,
     comment |-> comment]

close_position(action, lot, comment, tick) ==
    [volume |-> lot,
     type |-> IF action = "LONG" THEN ORDER_TYPE_SELL ELSE ORDER_TYPE_BUY,
     price |-> IF action = "LONG" THEN tick.bid ELSE tick.ask,
     magic |-> MAGIC_NUMBER,
     comment |-> comment]

(* The terminal executing a deal (lines 89 and 107, result DONE): a deal    *)
(* against an open position of the same magic number and the opposite side  *)
(* closes the first such position; any other deal opens a position.         *)
RECURSIVE RemoveFirst(_, _, _)
RemoveFirst(s, magic, type) ==
    IF s = <<>> THEN <<>>
    ELSE IF Head(s).magic = magic /\ Head(s).type = type THEN Tail(s)
    ELSE <<Head(s)>> \o RemoveFirst(Tail(s), magic, type)

Opposite(order_type) == IF order_type = ORDER_TYPE_BUY THEN POSITION_TYPE_SELL ELSE POSITION_TYPE_BUY

order_send_done(positions, request, t) ==
    IF \E i \in 1..Len(positions) :
           positions[i].magic = request.magic /\ positions[i].type = Opposite(request.type)
    THEN RemoveFirst(positions, request.magic, Opposite(request.type))
    ELSE Append(positions,
                [magic |-> request.magic,
                 type |-> IF request.type = ORDER_TYPE_BUY THEN POSITION_TYPE_BUY ELSE POSITION_TYPE_SELL,
                 price_open |-> request.price, time |-> t, volume |-> request.volume])

----------------------------------------------------------------------------
(* Data fetching, lines 111-126.  rates is None or, of the bars returned,   *)
(* their number n and the z-score, last close, atr and trend test they      *)
(* give where pandas has enough rows to define them.                        *)
get_indicators(rates) ==
    IF IsNone(rates) THEN NoResult
    ELSE LET r == Get(rates)
         IN  Some([z |-> IF r.n < 2 THEN NaN ELSE r.z,               \* std of one value is NaN
                   price |-> r.close,
                   atr |-> IF r.n < 15 THEN NaN ELSE r.atr,           \* rolling(14) over tr, tr[0] is NaN
                   is_trending |-> IF r.n < TREND_WINDOW THEN FALSE ELSE r.trending])  \* NaN > 0.03 is False

----------------------------------------------------------------------------
(* Decisions of the main loop, lines 147-185 *)
\* line 136; (mutation: the connection test is skipped)
is_connected_assumed(info) == TRUE
is_connected(info) == info.connected
is_flat_unguarded(ap) == TRUE     \* (mutation: entry evaluated whatever is held)
is_flat_inverted(ap) == ap # None  \* (mutation: the test on active_position is negated)
is_flat(ap) == ap = None                                              \* line 148
is_holding(ap) == ap # None                                           \* line 164
\* (mutation: the trend filter is left out of the entry test)
entry_signal_untrended(z, is_trending) == Gt(Abs(z), ENTRY_Z)
entry_signal(z, is_trending) == Gt(Abs(z), ENTRY_Z) /\ ~is_trending   \* line 149
risk_cash_of(equity) == equity * RISK_PER_TRADE                       \* line 151, hundredths
stop_pips_of(atr) == IF atr = NaN THEN NaN ELSE (atr * 200) \div 1000 \* line 152
lots_tradable(lots) == Ge(lots, 1)                                    \* line 155
\* (mutation: the sides are swapped)
entry_direction_swapped(z) == IF Gt(z, 0) THEN "LONG" ELSE "SHORT"
entry_direction(z) == IF Gt(z, 0) THEN "SHORT" ELSE "LONG"            \* line 156

exit_flags(z, duration, t) ==                                         \* lines 165-175
    [hit_target |-> Le(Abs(z), EXIT_Z),
     hit_stop |-> Ge(Abs(z), STOP_Z),
     time_exit |-> duration > MAX_TRADE_DURATION_HOURS,
     is_weekend_close |-> weekday(t) = 4 /\ hour(t) >= 20]

should_exit(f) == f.hit_target \/ f.hit_stop \/ f.time_exit \/ f.is_weekend_close  \* line 177

\* (mutation: the time test is consulted before the stop test)
exit_reason_time_first(f) ==
    IF f.hit_target THEN "Target"
    ELSE IF f.time_exit THEN "Time"
    ELSE IF f.hit_stop THEN "Z-Stop"
    ELSE "Weekend"

exit_reason(f) ==                                                     \* line 178
    IF f.hit_target THEN "Target"
    ELSE IF f.hit_stop THEN "Z-Stop"
    ELSE IF f.time_exit THEN "Time"
    ELSE "Weekend"

\* line 183, in hundredths of JPY
pnl_of(ap, entry, price, lots) ==
    (IF ap = "SHORT" THEN entry - price ELSE price - entry) * lots * 100

----------------------------------------------------------------------------
(* Values the environment supplies *)
ClockStarts == {35}      \* a Thursday, 11:00 UTC
ClockSteps == {9}        \* to Friday, 20:00 UTC
ZValues == {-25, 2, 22, 25, 40}
BarCounts == {1, 150, 200}
AtrValues == {300}
Closes == {160000}
Equities == {5000, 10000}
Bars == [n : BarCounts, z : ZValues, close : Closes, atr : AtrValues, trending : BOOLEAN]
Accounts == {NoResult} \cup {Some([equity |-> e]) : e \in Equities}
SymbolInfos == {NoResult, Some([trade_tick_value |-> 1])}
Ticks == {NoResult, Some([bid |-> 160010, ask |-> 160030])}
TerminalInfos == {[connected |-> TRUE], [connected |-> FALSE]}
OrderResults == {NoResult, Some([retcode |-> TRADE_RETCODE_DONE]), Some([retcode |-> TRADE_RETCODE_REJECT])}

OwnLong == [magic |-> MAGIC_NUMBER, type |-> POSITION_TYPE_BUY, price_open |-> 160000, time |-> 30, volume |-> 2]
OwnShort == [magic |-> MAGIC_NUMBER, type |-> POSITION_TYPE_SELL, price_open |-> 160500, time |-> 20, volume |-> 5]
Foreign == [magic |-> 654321, type |-> POSITION_TYPE_BUY, price_open |-> 159000, time |-> 10, volume |-> 100]
\* the terminal at startup: at most one position carries the magic number
StartPositions == {<<>>, <<Foreign>>, <<Foreign, OwnLong>>, <<OwnShort>>}
\* a record left in the file by an earlier run (the entry of OwnShort)
EarlierRecord ==
    [row |-> "record", Timestamp |-> 20, Action |-> "ENTRY", Status |-> "SHORT",
     Price |-> 160500, Lots |-> 5, PnL_JPY |-> 0, Reason |-> <<"Z", 25>>]
StartLogs ==
    {NoFile,
     [exists |-> TRUE, lines |-> <<HeaderRow>>],
     [exists |-> TRUE, lines |-> <<HeaderRow, EarlierRecord>>]}

Tagged(positions) == Filter(positions, MAGIC_NUMBER)

----------------------------------------------------------------------------
(* Trace of one step: what it saw and did *)
Quiet(step) ==
    [step |-> step,
     at |-> clock,                        \* wall clock when the step ran
     before |-> active_position,          \* in-memory direction when the step began
     held |-> [price |-> entry_price, time |-> trade_entry_time, lots |-> trade_lots],  \* and the rest
     tagged |-> Len(Tagged(gwPositions)), \* positions of the magic number open when it began
     outage |-> unrecovered,              \* disconnect seen and no recovery since, when it began
     connected |-> TRUE,                  \* terminal_info().connected, where read
     bars |-> 0,                          \* bars returned, 0 when none were fetched
     ind |-> NoResult,                    \* get_indicators' result
     lots |-> NoPrice,                    \* get_lot_size's result, NoPrice when not called
     flags |-> NoResult,                  \* the four exit tests, where evaluated
     calls |-> <<>>,                      \* send_market_order / close_position calls
     orders |-> <<>>,                     \* requests handed to mt5.order_send
     result |-> NoResult,                 \* what mt5.order_send returned
     logged |-> <<>>,                     \* records appended to LOG_FILE
     recovered |-> FALSE,                 \* check_existing_position ran
     raised |-> None]                     \* exception that left the loop

\* the script's variables and files after a step, with the step's trace
Keep(step) ==
    [ap |-> active_position, ep |-> entry_price, tet |-> trade_entry_time, tl |-> trade_lots,
     gw |-> gwPositions, log |-> logFile, tr |-> Quiet(step)]

\* the records a step added to LOG_FILE
Appended(before, after) ==
    LET old == Records(before.lines)
        new == Records(after.lines)
    IN  IF Len(new) > Len(old) THEN SubSeq(new, Len(old) + 1, Len(new)) ELSE <<>>

Raise(o, exc) == [o EXCEPT !.tr.raised = exc]

\* a step of the loop ends: an exception leaves the try block, the finally
\* clause shuts the session down and the interpreter exits with status 1
Commit(o) ==
    /\ active_position' = o.ap
    /\ entry_price' = o.ep
    /\ trade_entry_time' = o.tet
    /\ trade_lots' = o.tl
    /\ gwPositions' = o.gw
    /\ logFile' = o.log
    /\ last' = [o.tr EXCEPT !.logged = Appended(logFile, o.log)]
    /\ cycles' = cycles + 1
    /\ IF o.tr.raised = None
       THEN pc' = "loop" /\ exit_status' = exit_status /\ gwInitialized' = gwInitialized
       ELSE pc' = "stopped" /\ exit_status' = 1 /\ gwInitialized' = FALSE
    /\ UNCHANGED <<clock, unrecovered>>

----------------------------------------------------------------------------
(* The script *)
Init ==
    /\ pc = "boot"
    /\ exit_status = -1
    /\ active_position = None
    /\ entry_price = NoPrice
    /\ trade_entry_time = NoTime
    /\ trade_lots = 0
    /\ gwInitialized = FALSE
    /\ gwPositions \in StartPositions
    /\ logFile \in StartLogs
    /\ clock \in ClockStarts
    /\ cycles = 0
    /\ unrecovered = FALSE
    /\ last = [Quiet("start") EXCEPT !.before = None, !.tagged = 0, !.outage = FALSE]

\* lines 21-23: quit() raises SystemExit(None), which ends the process with status 0
Initialize ==
    /\ pc = "boot"
    /\ \E ok \in BOOLEAN :
          /\ gwInitialized' = ok
          /\ pc' = IF ok THEN "recover" ELSE "stopped"
          /\ exit_status' = IF ok THEN exit_status ELSE 0
    /\ last' = Quiet("initialize")
    /\ UNCHANGED <<active_position, entry_price, trade_entry_time, trade_lots,
                   gwPositions, logFile, clock, cycles, unrecovered>>

\* line 129
Startup ==
    /\ pc = "recover"
    /\ LET r == check_existing_position(gwPositions)
       IN  /\ active_position' = r.direction
           /\ entry_price' = r.price
           /\ trade_entry_time' = r.time
           /\ trade_lots' = r.lots
    /\ unrecovered' = FALSE
    /\ pc' = "loop"
    /\ last' = [Quiet("startup") EXCEPT !.recovered = TRUE]
    /\ UNCHANGED <<exit_status, gwInitialized, gwPositions, logFile, clock, cycles>>

LoopTop == pc = "loop" /\ cycles < MaxCycles

\* line 136 without a session: terminal_info() returns None, .connected raises
TerminalInfoFails ==
    /\ LoopTop
    /\ ~gwInitialized
    /\ Commit(Raise(Keep("connection"), "AttributeError"))

\* lines 136-141: disconnected; shutdown, sleep, initialize, continue
Reconnect ==
    /\ LoopTop
    /\ gwInitialized
    /\ \E info \in TerminalInfos :
          /\ ~is_connected(info)
          /\ last' = [Quiet("reconnect") EXCEPT !.connected = info.connected]
    /\ \E ok \in BOOLEAN : gwInitialized' = ok
    /\ unrecovered' = TRUE
    /\ cycles' = cycles + 1
    /\ UNCHANGED <<pc, exit_status, active_position, entry_price, trade_entry_time,
                   trade_lots, gwPositions, logFile, clock>>

\* lines 143-144: copy_rates_from_pos returned None; continue
NoRates ==
    /\ LoopTop
    /\ gwInitialized
    /\ \E info \in TerminalInfos :
          /\ is_connected(info)
          /\ Commit([Keep("nodata") EXCEPT !.tr.connected = info.connected])

\* lines 150-161, the entry signal being true
EnterFrom(k, d) ==
    \E account \in Accounts :
       IF IsNone(account) THEN Commit(Raise(k, "AttributeError"))   \* line 151
       ELSE \E symbol_info \in SymbolInfos :
          IF IsNone(symbol_info) THEN Commit(Raise(k, "AttributeError"))   \* line 43
          ELSE LET lots == get_lot_size(risk_cash_of(Get(account).equity), stop_pips_of(d.atr),
                                        Get(symbol_info).trade_tick_value)
                   k1 == [k EXCEPT !.tl = lots, !.tr.lots = lots]
               IN  IF ~lots_tradable(lots) THEN Commit(k1)
                   ELSE LET direction == entry_direction(d.z)
                            call == [fn |-> "send_market_order", action |-> direction,
                                     lot |-> lots, comment |-> "Z-Entry"]
                            k2 == [k1 EXCEPT !.tr.calls = Append(@, call)]
                        IN  \E tick \in Ticks :
                              IF IsNone(tick) THEN Commit(Raise(k2, "AttributeError"))  \* line 75
                              ELSE \E res \in OrderResults :
                                 LET request == send_market_order(direction, lots, "Z-Entry", Get(tick))
                                     k3 == [k2 EXCEPT !.tr.orders = Append(@, request), !.tr.result = res]
                                 IN  IF IsNone(res) THEN Commit(Raise(k3, "AttributeError"))  \* line 158
                                     ELSE IF Get(res).retcode # TRADE_RETCODE_DONE THEN Commit(k3)
                                     ELSE LET k4 == [k3 EXCEPT !.gw = order_send_done(@, request, clock),
                                                               !.ap = direction, !.ep = d.price, !.tet = now]
                                          IN  \E written \in BOOLEAN :
                                                IF written
                                                THEN Commit([k4 EXCEPT
                                                        !.log = log_trade(@, "ENTRY", direction, d.price, lots, 0, <<"Z", d.z>>)])
                                                ELSE Commit(Raise(k4, "OSError"))   \* line 68

\* lines 143-161 and 187: a cycle that finds active_position None
EntryCycle ==
    /\ LoopTop
    /\ gwInitialized
    /\ is_flat(active_position)
    /\ \E info \in TerminalInfos, rates \in Bars :
          LET d == Get(get_indicators(Some(rates)))
              k == [Keep("entry") EXCEPT !.tr.connected = info.connected,
                                         !.tr.bars = rates.n, !.tr.ind = Some(d)]
          IN  is_connected(info) /\ IF entry_signal(d.z, d.is_trending) THEN EnterFrom(k, d) ELSE Commit(k)

\* lines 179-185, an exit test being true
ExitFrom(k, d, reason) ==
    LET call == [fn |-> "close_position", action |-> active_position,
                 lot |-> trade_lots, comment |-> reason]
        k2 == [k EXCEPT !.tr.calls = Append(@, call)]
    IN  \E tick \in Ticks :
          IF IsNone(tick) THEN Commit(Raise(k2, "AttributeError"))   \* line 95
          ELSE \E res \in OrderResults :
             LET request == close_position(active_position, trade_lots, reason, Get(tick))
                 k3 == [k2 EXCEPT !.tr.orders = Append(@, request), !.tr.result = res]
             IN  IF IsNone(res) THEN Commit(Raise(k3, "AttributeError"))   \* line 181
                 ELSE IF Get(res).retcode # TRADE_RETCODE_DONE THEN Commit(k3)
                 ELSE LET k4 == [k3 EXCEPT !.gw = order_send_done(@, request, clock)]
                          pnl == pnl_of(active_position, entry_price, d.price, trade_lots)
                      IN  \E written \in BOOLEAN :
                            IF written
                            THEN Commit([k4 EXCEPT
                                    !.log = log_trade(@, "EXIT", active_position, d.price, trade_lots, pnl, <<reason>>),
                                    !.ap = None])                    \* line 185
                            ELSE Commit(Raise(k4, "OSError"))         \* line 68, before line 185

\* lines 143-145, 164-187: a cycle that finds active_position set
ExitCycle ==
    /\ LoopTop
    /\ gwInitialized
    /\ ~is_flat(active_position)
    /\ is_holding(active_position)
    /\ \E info \in TerminalInfos, rates \in Bars :
          LET d == Get(get_indicators(Some(rates)))
              duration == hours_between(now, trade_entry_time)
              f == exit_flags(d.z, duration, now)
              k == [Keep("exit") EXCEPT !.tr.connected = info.connected,
                                        !.tr.bars = rates.n, !.tr.ind = Some(d), !.tr.flags = Some(f)]
          IN  is_connected(info) /\ IF should_exit(f) THEN ExitFrom(k, d, exit_reason(f)) ELSE Commit(k)

\* (mutation: the handler closes the held position before shutting down)
Interrupt_closing ==
    /\ pc = "loop"
    /\ pc' = "stopped"
    /\ exit_status' = 0
    /\ gwInitialized' = FALSE
    /\ gwPositions' =
          IF active_position = None THEN gwPositions
          ELSE order_send_done(gwPositions,
                               close_position(active_position, trade_lots, "Shutdown",
                                              [bid |-> 160010, ask |-> 160030]),
                               clock)
    /\ last' = Quiet("interrupt")
    /\ UNCHANGED <<active_position, entry_price, trade_entry_time, trade_lots,
                   logFile, clock, cycles, unrecovered>>

\* lines 189-192: KeyboardInterrupt inside the try block; the script then ends, status 0
Interrupt ==
    /\ pc = "loop"
    /\ pc' = "stopped"
    /\ exit_status' = 0
    /\ gwInitialized' = FALSE
    /\ last' = Quiet("interrupt")
    /\ UNCHANGED <<active_position, entry_price, trade_entry_time, trade_lots,
                   gwPositions, logFile, clock, cycles, unrecovered>>

\* wall-clock time passes (time.sleep at lines 139 and 187, and the calls themselves)
Tick ==
    /\ pc # "stopped"
    /\ \E dt \in ClockSteps : clock + dt <= MaxClock /\ clock' = clock + dt
    /\ UNCHANGED <<pc, exit_status, active_position, entry_price, trade_entry_time, trade_lots,
                   gwInitialized, gwPositions, logFile, cycles, unrecovered, last>>

Next ==
    \/ Initialize
    \/ Startup
    \/ TerminalInfoFails
    \/ Reconnect
    \/ NoRates
    \/ EntryCycle
    \/ ExitCycle
    \/ Interrupt
    \/ Tick

Spec == Init /\ [][Next]_vars

----------------------------------------------------------------------------
(* Recovery on its own: the terminal may list any positions in any order.   *)
OwnLate == [magic |-> MAGIC_NUMBER, type |-> POSITION_TYPE_SELL, price_open |-> 161000, time |-> 33, volume |-> 7]
PositionSamples == {OwnLong, OwnShort, OwnLate, Foreign}
MaxListed == 3

Listings ==
    {s \in UNION {[1..n -> PositionSamples] : n \in 0..MaxListed} :
        \A i, j \in 1..Len(s) : i # j => s[i] # s[j]}

InitRecover ==
    /\ pc = "recover"
    /\ exit_status = -1
    /\ active_position = None
    /\ entry_price = NoPrice
    /\ trade_entry_time = NoTime
    /\ trade_lots = 0
    /\ gwInitialized = TRUE
    /\ gwPositions \in Listings
    /\ logFile = NoFile
    /\ clock \in ClockStarts
    /\ cycles = 0
    /\ unrecovered = FALSE
    /\ last = [Quiet("initialize") EXCEPT !.before = None, !.tagged = 0, !.outage = FALSE]

\* the terminal lists the same positions in another order
Relist ==
    /\ pc = "recover"
    /\ \E i \in 1..(Len(gwPositions) - 1) :
          gwPositions' = [gwPositions EXCEPT ![i] = gwPositions[i + 1], ![i + 1] = gwPositions[i]]
    /\ last' = Quiet("relist")
    /\ UNCHANGED <<pc, exit_status, active_position, entry_price, trade_entry_time, trade_lots,
                   gwInitialized, logFile, clock, cycles, unrecovered>>

NextRecover ==
    \/ Startup
    \/ Relist

SpecRecover == InitRecover /\ [][NextRecover]_vars

----------------------------------------------------------------------------
(* The sizer on its own, lines 40-53: the arguments and the tick value are  *)
(* drawn from sets that hold the 0.01 threshold, the 10.0 cap, the stop     *)
(* floor, a NaN stop and quotients on both sides of half a lot step (none  *)
(* exactly at half a step, where binary floating point decides).            *)
RiskAmounts == {0, 999, 1000, 1400, 1600, 2600, 3400, 4800, 10000, 999400, 1000000, 2000000}
StopDistances == {NaN, 5, 10, 15, 60}
TickValues == {1, 2}

InitSizer ==
    /\ pc = "size"
    /\ exit_status = -1
    /\ active_position = None
    /\ entry_price = NoPrice
    /\ trade_entry_time = NoTime
    /\ trade_lots = 0
    /\ gwInitialized = TRUE
    /\ gwPositions = <<>>
    /\ logFile = NoFile
    /\ clock \in ClockStarts
    /\ cycles = 0
    /\ unrecovered = FALSE
    /\ \E r \in RiskAmounts, sp \in StopDistances, tv \in TickValues :
          last = [step |-> "arguments", risk_amount |-> r, stop_pips |-> sp,
                  tick_value |-> tv, lots |-> NoPrice]

\* one call get_lot_size(risk_amount, stop_pips), with symbol_info's tick value
Size ==
    /\ pc = "size"
    /\ pc' = "sized"
    /\ last' = [last EXCEPT !.step = "sized",
                            !.lots = get_lot_size(last.risk_amount, last.stop_pips,
                                                  last.tick_value)]
    /\ UNCHANGED <<exit_status, active_position, entry_price, trade_entry_time, trade_lots,
                   gwInitialized, gwPositions, logFile, clock, cycles, unrecovered>>

NextSizer == Size

SpecSizer == InitSizer /\ [][NextSizer]_vars

----------------------------------------------------------------------------
(* Properties *)
Evaluated == last.step \in {"entry", "exit"}
Rejected == ~IsNone(last.result) /\ Get(last.result).retcode # TRADE_RETCODE_DONE
Filled == ~IsNone(last.result) /\ Get(last.result).retcode = TRADE_RETCODE_DONE

\* C1: at most one position of the magic number is open at the terminal, and
\* no entry order is submitted while one is open.
C1_OnePositionPerTag ==
    /\ Len(Tagged(gwPositions)) <= 1
    /\ (last.step = "entry" /\ last.orders # <<>>) => last.tagged = 0

\* an entry order filled in a cycle after the cycle that closed the recovered position
C1_Witness ==
    /\ last.step = "entry"
    /\ Filled
    /\ Len(Tagged(gwPositions)) = 1
    /\ \E i \in 1..Len(logFile.lines) :
          logFile.lines[i].row = "record" /\ logFile.lines[i].Action = "EXIT"

\* C2: after a reconnect that follows a detected disconnect, recovery runs
\* before any entry or exit evaluation: no cycle evaluates entry or exit
\* while a detected disconnect has not been followed by a recovery call.
C2_RecoveryBeforeEvaluation == Evaluated => ~last.outage

\* C3: every order the terminal rejects appends exactly one failure record
\* to the audit log in that cycle.
C3_RejectionLogged ==
    Rejected => (Len(last.logged) = 1 /\ last.logged[1].Action \notin {"ENTRY", "EXIT"})

\* C4: when the entry test holds while flat and the sizer returns 0, no order
\* is submitted, the state stays flat and exactly one skip record is appended.
C4_SkipLogged ==
    (last.step = "entry" /\ last.lots = 0) =>
        /\ last.orders = <<>>
        /\ active_position = None
        /\ Len(last.logged) = 1
        /\ last.logged[1].Action \notin {"ENTRY", "EXIT"}

\* C5: a failed append to the audit log after a confirmed order leaves the
\* in-memory state at the post-transition state and the loop running.
C5_LogFailureHarmless ==
    (Filled /\ last.logged = <<>>) =>
        /\ pc = "loop"
        /\ (last.step = "entry" => active_position # None)
        /\ (last.step = "exit" => active_position = None)

\* C6: once startup has succeeded, a failing terminal call (no order result,
\* a failed reconnect, no account or tick data) does not end the loop.
C6_GatewayFailureAbsorbed == last.raised = "AttributeError" => pc = "loop"

\* C7: a cycle whose bar sequence is shorter than lookback + trend window
\* submits no order, writes no record and leaves the position unchanged.
\* (Stated for sequences shorter than the trend window alone, which are
\* shorter than the sum.)
C7_ShortHistorySkipped ==
    (Evaluated /\ last.raised = None /\ last.bars < TREND_WINDOW
               /\ TREND_WINDOW <= LOOKBACK + TREND_WINDOW) =>
        /\ last.orders = <<>>
        /\ last.logged = <<>>
        /\ active_position = last.before


InMemory ==
    [direction |-> active_position, price |-> entry_price, time |-> trade_entry_time, lots |-> trade_lots]
FlatPosition == [direction |-> None, price |-> NoPrice, time |-> NoTime, lots |-> 0]
FieldsOf(p) ==
    [direction |-> IF p.type = POSITION_TYPE_BUY THEN "LONG" ELSE "SHORT",
     price |-> p.price_open, time |-> [utc |-> p.time], lots |-> p.volume]
IsTagged(p) == p.magic = MAGIC_NUMBER
TaggedIndexes == {i \in 1..Len(gwPositions) : IsTagged(gwPositions[i])}

\* C8 as stated: recovery returns flat when no listed position carries the
\* magic number, and otherwise the fields of the earliest-opened one that does.
C8_RecoversEarliest ==
    last.step = "startup" =>
        IF TaggedIndexes = {} THEN InMemory = FlatPosition
        ELSE \E i \in TaggedIndexes :
                /\ \A j \in TaggedIndexes : gwPositions[i].time <= gwPositions[j].time
                /\ InMemory = FieldsOf(gwPositions[i])

\* C8 amended: recovery returns flat when no listed position carries the
\* magic number, and otherwise the fields of the first one that does in the
\* order the terminal lists them, whatever other positions are listed.
C8_RecoversFirstListed ==
    last.step = "startup" =>
        IF TaggedIndexes = {} THEN InMemory = FlatPosition
        ELSE \E i \in TaggedIndexes :
                /\ \A j \in TaggedIndexes : i <= j
                /\ InMemory = FieldsOf(gwPositions[i])

\* recovery from a listing that starts with a foreign position and lists a
\* later-opened own position before an earlier-opened one
C8_Witness ==
    /\ last.step = "startup"
    /\ Len(gwPositions) = 3
    /\ ~IsTagged(gwPositions[1])
    /\ IsTagged(gwPositions[2]) /\ IsTagged(gwPositions[3])
    /\ gwPositions[2].time > gwPositions[3].time
    /\ InMemory = FieldsOf(gwPositions[2])

\* C9: a failed initial connection ends the process with a non-zero status
\* before any cycle or order; an interrupt ends it with status 0.
C9_ExitStatus ==
    /\ (pc = "stopped" /\ last.step = "initialize") => (exit_status # 0 /\ cycles = 0)
    /\ (pc = "stopped" /\ last.step = "interrupt") => exit_status = 0

\* C10: a cycle that holds a position and finds an exit test true makes
\* exactly one closing attempt, whose reason (also the reason of the record
\* it writes) is the first true test in the order target, stop, time,
\* weekend.
C10_ExitPriority ==
    last.step = "exit" =>
        LET z == Get(last.ind).z
            target == z # NaN /\ z <= EXIT_Z /\ z >= -EXIT_Z
            stop == z # NaN /\ (z >= STOP_Z \/ z <= -STOP_Z)
            time == last.at - trade_entry_time.utc > MAX_TRADE_DURATION_HOURS
            friday == (last.at \div 24) % 7 = 1 /\ last.at % 24 >= 20
            first == IF target THEN "Target" ELSE IF stop THEN "Z-Stop"
                     ELSE IF time THEN "Time" ELSE "Weekend"
        IN  IF target \/ stop \/ time \/ friday
            THEN /\ Len(last.calls) = 1
                 /\ last.calls[1].fn = "close_position"
                 /\ last.calls[1].comment = first
                 /\ Len(last.orders) <= 1
                 /\ \A i \in 1..Len(last.orders) : last.orders[i].comment = first
                 /\ Len(last.logged) <= 1
                 /\ \A i \in 1..Len(last.logged) : last.logged[i].Reason = <<first>>
            ELSE last.calls = <<>> /\ last.logged = <<>>

\* stop, time and weekend tests all true, target false: the close is filled
\* and recorded with reason Z-Stop
C10_Witness ==
    /\ last.step = "exit"
    /\ Get(last.flags) = [hit_target |-> FALSE, hit_stop |-> TRUE, time_exit |-> TRUE,
                          is_weekend_close |-> TRUE]
    /\ Filled
    /\ Len(last.logged) = 1
    /\ last.logged[1].Reason = <<"Z-Stop">>


\* C11: an entry order is submitted, and the state leaves flat, only in a
\* cycle whose z-score is beyond the entry threshold in magnitude and whose
\* trend test is false (the state recovered at startup apart).
C11_EntryPrecondition ==
    LET entered == last.step # "startup" /\ last.before = None /\ active_position # None
        ordered == last.step = "entry" /\ (last.calls # <<>> \/ last.orders # <<>>)
    IN  (entered \/ ordered) =>
            LET d == Get(last.ind)
            IN  /\ last.step = "entry"
                /\ d.z # NaN
                /\ (d.z > ENTRY_Z \/ d.z < -ENTRY_Z)
                /\ d.is_trending = FALSE

\* an entry filled on a full history whose trend test is false
C11_Witness ==
    /\ last.step = "entry"
    /\ last.bars = TREND_WINDOW
    /\ Filled
    /\ last.before = None /\ active_position # None
    /\ Get(last.ind).is_trending = FALSE

\* C12: an entry order, the state entered on its fill and the status of the
\* entry record are short when the z-score is positive, long when negative.
C12_EntryDirection ==
    (last.step = "entry" /\ last.calls # <<>>) =>
        LET z == Get(last.ind).z
            side == IF z > 0 THEN "SHORT" ELSE "LONG"
        IN  /\ z # NaN /\ z # 0
            /\ \A i \in 1..Len(last.calls) : last.calls[i].action = side
            /\ \A i \in 1..Len(last.orders) :
                  last.orders[i].type = (IF z > 0 THEN ORDER_TYPE_SELL ELSE ORDER_TYPE_BUY)
            /\ (Filled => active_position = side)
            /\ \A i \in 1..Len(last.logged) :
                  last.logged[i].Action = "ENTRY" /\ last.logged[i].Status = side

\* a short entry on a positive z-score, filled and recorded
C12_Witness ==
    /\ last.step = "entry"
    /\ Get(last.ind).z > 0
    /\ Filled
    /\ active_position = "SHORT"
    /\ Len(last.logged) = 1
    /\ last.logged[1].Status = "SHORT"

\* C13: a cycle that starts flat evaluates only entry and one that starts
\* long or short only exit: at most one order per cycle, and a position
\* closed in a cycle is not reopened in it.
C13_EntryOrExit ==
    /\ Len(last.calls) <= 1
    /\ Len(last.orders) <= 1
    /\ last.before = None =>
          /\ last.flags = NoResult
          /\ \A i \in 1..Len(last.calls) : last.calls[i].fn = "send_market_order"
    /\ last.before # None =>
          /\ last.lots = NoPrice
          /\ \A i \in 1..Len(last.calls) : last.calls[i].fn = "close_position"
          /\ (Filled /\ last.raised = None) => active_position = None

\* a cycle that closes the held position and ends flat, nothing reopened
C13_Witness ==
    /\ last.step = "exit"
    /\ last.before # None
    /\ Filled
    /\ active_position = None
    /\ Len(last.orders) = 1
    /\ Tagged(gwPositions) = <<>>


Entered == last.step = "entry" /\ last.before = None /\ active_position # None
Exited == last.step = "exit" /\ last.before # None /\ active_position = None
RecordsMatchTransition ==
    \A i \in 1..Len(last.logged) :
        /\ last.logged[i].Action = "ENTRY" => Entered
        /\ last.logged[i].Action = "EXIT" => Exited
OneRecord(action) == Len(last.logged) = 1 /\ last.logged[1].Action = action

C15_NoEvaluationWhileDisconnected ==
    last.connected = FALSE =>
        /\ last.step = "reconnect"
        /\ last.bars = 0 /\ last.ind = NoResult /\ last.flags = NoResult
        /\ last.calls = <<>> /\ last.orders = <<>> /\ last.logged = <<>>
        /\ active_position = last.before
        /\ Len(Tagged(gwPositions)) = last.tagged

\* a second disconnected cycle in a row of an outage, a position being held
C15_Witness ==
    /\ last.step = "reconnect"
    /\ last.connected = FALSE
    /\ last.outage
    /\ active_position # None
    /\ cycles >= 2


ExitDue == last.step = "exit" /\ \E n \in DOMAIN Get(last.flags) : Get(last.flags)[n]

\* C16: a rejected order is not retried in its cycle and leaves the position
\* as it was (flat, or long/short with the same price, time and size); every
\* cycle that holds a position and finds an exit test true submits a closing
\* order, and the position is flat once the terminal confirms a close.
C16_RejectedCloseRetried ==
    /\ Rejected =>
          /\ Len(last.orders) = 1
          /\ active_position = last.before
          /\ last.before # None =>
                (/\ entry_price = last.held.price
                 /\ trade_entry_time = last.held.time
                 /\ trade_lots = last.held.lots)
    /\ ExitDue => Len(last.orders) = 1
    /\ (last.step = "exit" /\ Filled) => active_position = None


\* C17: an interrupt ends the loop by shutting the terminal session down and
\* nothing else: no order is submitted, and the positions open at the
\* terminal, the in-memory position and the audit log are as they were.
C17_InterruptLeavesPosition ==
    [][(pc = "loop" /\ pc' = "stopped" /\ last'.step = "interrupt") =>
          /\ gwPositions' = gwPositions
          /\ last'.calls = <<>> /\ last'.orders = <<>>
          /\ logFile' = logFile
          /\ active_position' = active_position
          /\ gwInitialized' = FALSE
          /\ exit_status' = 0]_vars

\* the process stopped by an interrupt while a position was held and open
C17_Witness ==
    /\ pc = "stopped"
    /\ last.step = "interrupt"
    /\ active_position # None
    /\ Len(Tagged(gwPositions)) = 1
    /\ ~gwInitialized


\* the divisor of the sizer, the stop floored at 10 pips, in the model's units
SizerDivisor == PyMax(last.stop_pips, 10) * last.tick_value * 100

\* C18: for every risk amount and every (numeric) stop distance the sizer
\* returns the quotient rounded down to the 0.01 lot step and capped at 10.0,
\* or 0 when that is below 0.01; so the result never exceeds the unrounded
\* quotient and is 0 or within [0.01, 10.0].
C18_SizerRoundsDown ==
    (last.step = "sized" /\ IsNum(last.stop_pips)) =>
        LET floored == last.risk_amount \div SizerDivisor
            capped  == IF floored > 1000 THEN 1000 ELSE floored
        IN  /\ last.lots = IF capped < 1 THEN 0 ELSE capped
            /\ last.lots * SizerDivisor <= last.risk_amount
            /\ last.lots = 0 \/ (1 <= last.lots /\ last.lots <= 1000)


\* C19: after a confirmed entry fill the in-memory position (direction, entry
\* price, entry time, size) equals what recovery would return for the magic
\* number from the terminal's positions at that moment.
C19_FillEqualsRecovery ==
    (last.step = "entry" /\ Filled) => InMemory = check_existing_position(gwPositions)


\* a cycle in which log_trade was called and returned
Recorded ==
    /\ cycles' = cycles + 1
    /\ (last.step \in {"entry", "exit"} /\ Filled /\ last.raised = None)'
HeaderRows(ls) == {i \in 1..Len(ls) : ls[i].row = "header"}

\* C20: the audit log is append-only: every step leaves the earlier lines as
\* they were, every call of log_trade that returns appends exactly one
\* record, the header row is written only by a call that finds the file
\* absent, and it is never anywhere but on the first line.
C20_AppendOnly ==
    [][LET old == logFile.lines
           new == logFile'.lines
       IN  /\ Len(new) >= Len(old)
           /\ SubSeq(new, 1, Len(old)) = old
           /\ logFile.exists => logFile'.exists
           /\ Recorded <=> Len(Records(new)) = Len(Records(old)) + 1
           /\ ~Recorded => new = old
           /\ Cardinality(HeaderRows(new)) =
                 Cardinality(HeaderRows(old)) + (IF Recorded /\ ~logFile.exists THEN 1 ELSE 0)
           /\ HeaderRows(new) \subseteq {1}]_vars

\* the file was absent when the script started and now holds the header, the
\* record of an entry and the record of the exit that followed
C20_Witness ==
    /\ logFile.exists
    /\ Len(logFile.lines) = 3
    /\ HeaderRows(logFile.lines) = {1}
    /\ logFile.lines[2].Action = "ENTRY" /\ logFile.lines[2].Timestamp >= 35
    /\ logFile.lines[3].Action = "EXIT"

====
